---- MODULE Spec2Model ----
(***************************************************************************)
(* sol-rpc-proxy: a reverse proxy in front of a pool of JSON-RPC upstreams. *)
(* The model covers the health store and its hysteresis rule, the          *)
(* dispatcher (AppState::select_backend), the method-extracting middleware  *)
(* (extract_rpc_method) and the forwarding handler (proxy), both as split   *)
(* into src/state.rs + src/handlers.rs and as kept in src/main.rs.          *)
(*                                                                         *)
(* Strings of the program whose characters matter (URIs, query strings)    *)
(* are sequences of one-character strings.                                 *)
(***************************************************************************)
EXTENDS Integers, Sequences, FiniteSets, TLC

(***************************************************************************)
(* Bounds of the model.                                                    *)
(***************************************************************************)
\* total number of probe outcomes recorded in hist (SpecProbe)
MaxHist == 9
\* largest threshold drawn for F and S in SpecProbe
MaxThreshold == 3
\* cap on a streak counter in the specifications that keep no history
MaxCount == 4

(***************************************************************************)
(* Configuration (src/config.rs).                                          *)
(***************************************************************************)
DefaultFailuresThreshold == 3
DefaultSuccessesThreshold == 2

\* the backend pool, in configured order: unique non-empty labels, weight > 0
backends ==
  << [label |-> "A", url |-> <<"h", ":", "/", "/", "a", "/">>, weight |-> 1],
     [label |-> "B", url |-> <<"h", ":", "/", "/", "b">>, weight |-> 2] >>

Labels == {backends[i].label : i \in DOMAIN backends}

\* probe failure reasons carried by Failure(err)
Errors == {"timeout", "status 500"}
Outcomes == {"Success"} \cup Errors
NoError == "none"

(***************************************************************************)
(* Character strings.                                                      *)
(***************************************************************************)
\* str::find: the position of the first occurrence of pat in s, 0 when none
find(s, pat) ==
  LET hits == {i \in 1..(Len(s) - Len(pat) + 1) : SubSeq(s, i, i + Len(pat) - 1) = pat}
  IN IF hits = {} THEN 0 ELSE CHOOSE i \in hits : \A j \in hits : i <= j

\* str::trim_end_matches(c): s without its trailing run of c
RECURSIVE trim_end_matches(_, _)
trim_end_matches(s, c) ==
  IF s # <<>> /\ s[Len(s)] = c THEN trim_end_matches(SubSeq(s, 1, Len(s) - 1), c) ELSE s

ends_with(s, c) == s # <<>> /\ s[Len(s)] = c
starts_with(s, c) == s # <<>> /\ s[1] = c

\* s split at every occurrence of the character c
RECURSIVE split(_, _)
split(s, c) ==
  LET i == find(s, <<c>>)
  IN IF i = 0 THEN <<s>>
     ELSE <<SubSeq(s, 1, i - 1)>> \o split(SubSeq(s, i + 1, Len(s)), c)

ApiKeyName == <<"a", "p", "i", "-", "k", "e", "y">>
\* the literal "?api-key=" the handler searches for
ApiKeyPattern == <<"?">> \o ApiKeyName \o <<"=">>

(***************************************************************************)
(* Routing tables and admission (AppState).                                *)
(***************************************************************************)
api_keys == << <<"k">> >>

\* method-name -> backend-label
method_routes == [m \in {"getBlock"} |-> "B"]

\* backend-label -> url, built from the backend pool
label_to_url ==
  [l \in Labels |-> backends[CHOOSE i \in DOMAIN backends : backends[i].label = l].url]

NoMethod == "-"

(***************************************************************************)
(* Request bodies: sequences of JSON lexemes, with the byte size on the    *)
(* wire (whitespace between lexemes pads a body to any size).              *)
(***************************************************************************)
MAX_BODY_SIZE == 10 * 1024 * 1024

P(c) == [k |-> "punct", v |-> c]
Str(x) == [k |-> "string", v |-> x]
Num(x) == [k |-> "number", v |-> x]
\* a byte that starts no JSON lexeme
Junk == [k |-> "junk", v |-> "#"]

GetBlockJson ==
  <<P("{"), Str("method"), P(":"), Str("getBlock"), P(","), Str("id"), P(":"), Num("1"), P("}")>>
GetSlotJson == <<P("{"), Str("method"), P(":"), Str("getSlot"), P("}")>>
BatchJson == <<P("[")>> \o GetBlockJson \o <<P("]")>>
NumericMethodJson == <<P("{"), Str("method"), P(":"), Num("1"), P("}")>>
NotJson == <<P("{"), Str("method"), P(":"), Str("getBlock"), Junk>>
NoMethodJson == <<P("{"), Str("id"), P(":"), Num("1"), P("}")>>
NestedMethodJson ==
  <<P("{"), Str("params"), P(":"),
    P("{"), Str("method"), P(":"), Str("getBlock"), P("}"), P("}")>>

EmptyBody == [bytes |-> <<>>, size |-> 0]

\* the bodies clients send
Bodies ==
  { [bytes |-> GetBlockJson, size |-> 40],
    [bytes |-> GetSlotJson, size |-> 20],
    [bytes |-> BatchJson, size |-> 42],
    [bytes |-> NumericMethodJson, size |-> 12],
    [bytes |-> NotJson, size |-> 21],
    [bytes |-> NoMethodJson, size |-> 8],
    [bytes |-> NestedMethodJson, size |-> 32],
    [bytes |-> GetBlockJson, size |-> MAX_BODY_SIZE],
    [bytes |-> GetBlockJson, size |-> MAX_BODY_SIZE + 1] }

\* to_bytes, had it read the body whatever its length
to_bytes_unlimited(body, limit, stream_fails) ==
  IF stream_fails
    THEN [ok |-> FALSE, bytes |-> EmptyBody]
    ELSE [ok |-> TRUE, bytes |-> body]

\* axum::body::to_bytes(body, limit): the bytes, or an error when the body is
\* longer than the limit or its stream fails
to_bytes(body, limit, stream_fails) ==
  IF stream_fails \/ body.size > limit
    THEN [ok |-> FALSE, bytes |-> EmptyBody]
    ELSE [ok |-> TRUE, bytes |-> body]

\* serde_json::from_slice::<Value>: the position after the JSON value that
\* starts at lexeme i, 0 when there is none
RECURSIVE parse_value(_, _), parse_members(_, _, _), parse_elements(_, _, _)
parse_value(t, i) ==
  IF i > Len(t) THEN 0
  ELSE IF t[i].k \in {"string", "number"} THEN i + 1
  ELSE IF t[i] = P("{") THEN parse_members(t, i + 1, TRUE)
  ELSE IF t[i] = P("[") THEN parse_elements(t, i + 1, TRUE)
  ELSE 0

parse_members(t, i, first) ==
  IF i > Len(t) THEN 0
  ELSE IF first /\ t[i] = P("}") THEN i + 1
  ELSE IF t[i].k = "string" /\ i + 1 <= Len(t) /\ t[i + 1] = P(":")
    THEN LET j == parse_value(t, i + 2)
         IN IF j = 0 \/ j > Len(t) THEN 0
            ELSE IF t[j] = P("}") THEN j + 1
            ELSE IF t[j] = P(",") THEN parse_members(t, j + 1, FALSE)
            ELSE 0
  ELSE 0

parse_elements(t, i, first) ==
  IF i > Len(t) THEN 0
  ELSE IF first /\ t[i] = P("]") THEN i + 1
  ELSE LET j == parse_value(t, i)
       IN IF j = 0 \/ j > Len(t) THEN 0
          ELSE IF t[j] = P("]") THEN j + 1
          ELSE IF t[j] = P(",") THEN parse_elements(t, j + 1, FALSE)
          ELSE 0

from_slice_ok(t) == parse_value(t, 1) = Len(t) + 1

\* json.get("method").and_then(|m| m.as_str()) on a parsed value: the string
\* member "method" of a top-level object (the last one wins), else NoMethod
RECURSIVE get_method_from(_, _, _)
get_method_from(t, i, found) ==
  IF i > Len(t) \/ t[i].k # "string" THEN found
  ELSE LET j == parse_value(t, i + 2)
           here == IF t[i].v = "method"
                     THEN (IF j = i + 3 /\ t[i + 2].k = "string" THEN t[i + 2].v ELSE NoMethod)
                     ELSE found
       IN IF t[j] = P(",") THEN get_method_from(t, j + 1, here) ELSE here

\* json_method, had it looked for the member without parsing the body
json_method_unparsed(t) ==
  IF t # <<>> /\ t[1] = P("{") THEN get_method_from(t, 2, NoMethod) ELSE NoMethod

\* the method tag of a body
json_method(t) ==
  IF from_slice_ok(t) /\ t[1] = P("{") THEN get_method_from(t, 2, NoMethod) ELSE NoMethod

(***************************************************************************)
(* Inbound URIs and the outbound URI.                                      *)
(***************************************************************************)
Root == <<"/">>
PathX == <<"/", "x">>
KeyGood == <<"k">>
KeyBad == <<"w">>
OtherParam == <<"a", "=", "1">>

\* the path-and-query of the requests clients send
PathQueries ==
  { Root \o ApiKeyPattern \o KeyGood,
    Root \o ApiKeyPattern \o KeyBad,
    PathX,
    PathX \o ApiKeyPattern \o KeyGood,
    PathX \o ApiKeyPattern \o KeyGood \o <<"&">> \o OtherParam,
    PathX \o <<"?">> \o OtherParam \o <<"&">> \o ApiKeyName \o <<"=">> \o KeyGood }

NoKey == <<"?">>

\* Query<Params>: the value of the query parameter api-key, NoKey when absent
query_api_key(path_and_query) ==
  LET q == find(path_and_query, <<"?">>)
      pairs == IF q = 0 THEN <<>>
               ELSE split(SubSeq(path_and_query, q + 1, Len(path_and_query)), "&")
      named == {i \in DOMAIN pairs :
                  LET e == find(pairs[i], <<"=">>)
                  IN e # 0 /\ SubSeq(pairs[i], 1, e - 1) = ApiKeyName}
  IN IF named = {} THEN NoKey
     ELSE LET i == CHOOSE n \in named : TRUE
          IN SubSeq(pairs[i], find(pairs[i], <<"=">>) + 1, Len(pairs[i]))

\* state.api_keys.contains(key)
api_key_valid(key) == \E i \in DOMAIN api_keys : api_keys[i] = key

\* the inbound path-and-query cut at the first "?api-key="
cleaned_request_path(path_and_query) ==
  LET pos == find(path_and_query, ApiKeyPattern)
  IN IF pos # 0 THEN SubSeq(path_and_query, 1, pos - 1) ELSE path_and_query

\* uri_string, had it joined the url and the path as they are
uri_string_plain_join(backend_url, cleaned) ==
  IF cleaned = <<"/">> THEN trim_end_matches(backend_url, "/")
  ELSE backend_url \o cleaned

\* the outbound URI for a backend url and a cleaned path
uri_string(backend_url, cleaned) ==
  IF cleaned = <<"/">> THEN trim_end_matches(backend_url, "/")
  ELSE IF ends_with(backend_url, "/") /\ starts_with(cleaned, "/")
    THEN backend_url \o SubSeq(cleaned, 2, Len(cleaned))
  ELSE backend_url \o cleaned

\* Uri::host(): the authority between "//" and the next "/" or "?"
uri_host(uri) ==
  LET a == find(uri, <<"/", "/">>)
      rest == SubSeq(uri, a + 2, Len(uri))
      ends == {i \in DOMAIN rest : rest[i] \in {"/", "?"}}
      e == IF ends = {} THEN Len(rest) + 1 ELSE CHOOSE i \in ends : \A j \in ends : i <= j
  IN SubSeq(rest, 1, e - 1)

VARIABLES
  health,               \* HealthStore: label -> HealthRecord
  failures_threshold,   \* health_check.consecutive_failures_threshold (F)
  successes_threshold,  \* health_check.consecutive_successes_threshold (S)
  hist,                 \* label -> the probe outcomes applied so far (history)
  probing,              \* HealthMonitor: backends whose probe of this cycle is in flight
  req,                  \* the inbound request being handled (RequestContext)
  health_view,          \* the GET /health request being answered, if any
  store,                \* HealthStore: its lock, the write in progress, the last read
  cycle                 \* HealthMonitor: the cycles started and the outcomes applied

vars == <<health, failures_threshold, successes_threshold, hist, probing, req,
          health_view, store, cycle>>

\* the state outside the proxied request and the monitor's probes
extra == <<health_view, store, cycle>>

\* no GET /health request is being answered
NoHealthView == [uri |-> <<>>, status |-> 0, overall_status |-> "-", backends |-> <<>>]

\* the store with its lock free, nothing written and nothing read yet
IdleStore == [writer |-> <<>>, log |-> [b \in Labels |-> <<>>], read |-> <<>>]

\* the monitor before its first cycle
NoCycle == [n |-> 0, applied |-> [b \in Labels |-> <<>>]]

InitExtra ==
  /\ health_view = NoHealthView
  /\ store = IdleStore
  /\ cycle = NoCycle

(***************************************************************************)
(* HealthStore and the hysteresis rule.                                    *)
(***************************************************************************)
\* HealthRecord at construction: optimistic, both counters 0
InitialRecord ==
  [healthy |-> TRUE, consecutive_failures |-> 0, consecutive_successes |-> 0,
   last_error |-> NoError]

\* OnSuccess, had it left the failure streak standing
OnSuccess_keeps_failures(r, S) ==
  LET n == r.consecutive_successes + 1
  IN [healthy |-> IF ~r.healthy /\ n >= S THEN TRUE ELSE r.healthy,
      consecutive_failures |-> r.consecutive_failures,
      consecutive_successes |-> n,
      last_error |-> NoError]

\* OnSuccess, had it flipped one success late (> for >=)
OnSuccess_flips_late(r, S) ==
  LET n == r.consecutive_successes + 1
  IN [healthy |-> IF ~r.healthy /\ n > S THEN TRUE ELSE r.healthy,
      consecutive_failures |-> 0,
      consecutive_successes |-> n,
      last_error |-> NoError]

\* the record after a Success probe
OnSuccess(r, S) ==
  LET n == r.consecutive_successes + 1
  IN [healthy |-> IF ~r.healthy /\ n >= S THEN TRUE ELSE r.healthy,
      consecutive_failures |-> 0,
      consecutive_successes |-> n,
      last_error |-> NoError]

\* OnFailure, had it flipped one failure late (> for >=)
OnFailure_flips_late(r, err, F) ==
  LET n == r.consecutive_failures + 1
  IN [healthy |-> IF r.healthy /\ n > F THEN FALSE ELSE r.healthy,
      consecutive_failures |-> n,
      consecutive_successes |-> 0,
      last_error |-> err]

\* OnFailure, had it toggled the flag at every failure from the threshold on
OnFailure_toggles(r, err, F) ==
  LET n == r.consecutive_failures + 1
  IN [healthy |-> IF n >= F THEN ~r.healthy ELSE r.healthy,
      consecutive_failures |-> n,
      consecutive_successes |-> 0,
      last_error |-> err]

\* the record after a Failure(err) probe
OnFailure(r, err, F) ==
  LET n == r.consecutive_failures + 1
  IN [healthy |-> IF r.healthy /\ n >= F THEN FALSE ELSE r.healthy,
      consecutive_failures |-> n,
      consecutive_successes |-> 0,
      last_error |-> err]

\* apply_probe(label, outcome): the new record of that label
apply_probe(r, outcome, F, S) ==
  IF outcome = "Success" THEN OnSuccess(r, S) ELSE OnFailure(r, outcome, F)

\* get_status(label): a copy of the record, taken at one instant
get_status(label) == health[label]

(***************************************************************************)
(* The request being handled.                                              *)
(***************************************************************************)
\* proxy.timeout_secs of the configuration
proxy_timeout_secs == 2

NoSelection == [label |-> "-", url |-> <<>>]
NoResponse == [status |-> 0, headers |-> "-", body |-> <<>>, backend |-> "-"]

IdleRequest ==
  [pc |-> "idle",
   path_and_query |-> <<>>,   \* inbound URI
   body_in |-> EmptyBody,      \* the body the client sent
   read_ok |-> TRUE,           \* whether the middleware could read it
   body |-> EmptyBody,         \* the body passed downstream
   rpc_method |-> NoMethod,    \* RpcMethod extension
   i |-> 0,                    \* position of the filter over the backends
   healthy_backends |-> <<>>,  \* indices of the backends kept by the filter
   seen |-> [l \in Labels |-> {}], \* healthy flags each record held during selection
   random_weight |-> <<>>,     \* the draw of the weighted choice, once made
   via |-> "-",                \* "method", "weighted" or "none" once select_backend returned
   selected |-> NoSelection,   \* what select_backend returned
   sent |-> <<>>,              \* outbound requests issued for this request
   elapsed |-> 0,              \* seconds the upstream call has been pending
   response |-> NoResponse]

\* what the upstreams may answer
UpstreamResponses ==
  { [status |-> 200, headers |-> "json", body |-> <<"result">>],
    [status |-> 500, headers |-> "text", body |-> <<"oops">>] }
TransportErrors == {"connection refused"}

\* (StatusCode, body).into_response()
plain_response(status, body) ==
  [status |-> status, headers |-> "text/plain", body |-> body, backend |-> "-"]

\* extracted, had the tagged request been rebuilt from the consumed body
extracted_drops_tagged_body(r, pq, body, stream_fails) ==
  LET read == to_bytes(body, MAX_BODY_SIZE, stream_fails)
      m == IF read.ok THEN json_method(read.bytes.bytes) ELSE NoMethod
  IN [IdleRequest EXCEPT !.pc = "extracted", !.path_and_query = pq,
        !.body_in = body, !.read_ok = read.ok,
        !.body = IF m # NoMethod THEN EmptyBody ELSE read.bytes, !.rpc_method = m]

\* extract_rpc_method: the request passed downstream
extracted(r, pq, body, stream_fails) ==
  LET read == to_bytes(body, MAX_BODY_SIZE, stream_fails)
      m == IF read.ok THEN json_method(read.bytes.bytes) ELSE NoMethod
  IN [IdleRequest EXCEPT !.pc = "extracted", !.path_and_query = pq,
        !.body_in = body, !.read_ok = read.ok,
        !.body = read.bytes, !.rpc_method = m]

\* the middleware reads the body of a new request and runs the handler; the
\* request is drawn from the given paths and bodies
ExtractRpcMethod(paths, bodies, failures) ==
  /\ req.pc \in {"idle", "done"}
  /\ \E pq \in paths, body \in bodies, stream_fails \in failures :
       req' = extracted(req, pq, body, stream_fails)
  /\ UNCHANGED <<health, failures_threshold, successes_threshold, hist, probing, extra>>

\* the healthy flags of the store, as one-element sets
FlagsNow(h) == [l \in Labels |-> {h[l].healthy}]

\* auth_checked, had it admitted every request that carries some api-key
auth_checked_any_key(r) ==
  LET key == query_api_key(r.path_and_query)
  IN IF key # NoKey
       THEN [r EXCEPT !.pc = "select", !.seen = FlagsNow(health)]
       ELSE [r EXCEPT !.pc = "done",
                      !.response = plain_response(401, <<"Unauthorized">>)]

\* proxy, the admission check
auth_checked(r) ==
  LET key == query_api_key(r.path_and_query)
  IN IF key # NoKey /\ api_key_valid(key)
       THEN [r EXCEPT !.pc = "select", !.seen = FlagsNow(health)]
       ELSE [r EXCEPT !.pc = "done",
                      !.response = plain_response(401, <<"Unauthorized">>)]

ProxyAuth ==
  /\ req.pc = "extracted"
  /\ req' = auth_checked(req)
  /\ UNCHANGED <<health, failures_threshold, successes_threshold, hist, probing, extra>>

\* method_routed, had it never looked at method_routes
method_routed_ignored(r) == [r EXCEPT !.pc = "filter", !.i = 1]

\* method_routed, had it returned the override without reading its health
method_routed_unchecked(r) ==
  IF /\ r.rpc_method # NoMethod
     /\ r.rpc_method \in DOMAIN method_routes
     /\ method_routes[r.rpc_method] \in DOMAIN label_to_url
    THEN LET backend_label == method_routes[r.rpc_method]
         IN [r EXCEPT !.pc = "selected", !.via = "method",
               !.selected = [label |-> backend_label,
                             url |-> label_to_url[backend_label]]]
    ELSE [r EXCEPT !.pc = "filter", !.i = 1]

\* select_backend, the method-specific route
method_routed(r) ==
  IF /\ r.rpc_method # NoMethod
     /\ r.rpc_method \in DOMAIN method_routes
     /\ method_routes[r.rpc_method] \in DOMAIN label_to_url
    THEN LET backend_label == method_routes[r.rpc_method]
         IN IF get_status(backend_label).healthy
              THEN [r EXCEPT !.pc = "selected", !.via = "method",
                      !.selected = [label |-> backend_label,
                                    url |-> label_to_url[backend_label]]]
              ELSE [r EXCEPT !.pc = "filter", !.i = 1]
    ELSE [r EXCEPT !.pc = "filter", !.i = 1]

SelectMethodRoute ==
  /\ req.pc = "select"
  /\ req' = method_routed(req)
  /\ UNCHANGED <<health, failures_threshold, successes_threshold, hist, probing, extra>>

\* filtered, had the filter kept every backend
filtered_keeps_all(r) ==
  [r EXCEPT !.i = @ + 1, !.healthy_backends = Append(@, r.i)]

\* filtered, had the filter kept the backends whose flag is false
filtered_negated(r) ==
  [r EXCEPT !.i = @ + 1,
            !.healthy_backends =
               IF ~get_status(backends[r.i].label).healthy THEN Append(@, r.i) ELSE @]

\* select_backend, the filter: one backend's status is read and the backend
\* kept when it is healthy
filtered(r) ==
  [r EXCEPT !.i = @ + 1,
            !.healthy_backends =
               IF get_status(backends[r.i].label).healthy THEN Append(@, r.i) ELSE @]

FilterBackend ==
  /\ req.pc = "filter"
  /\ req.i <= Len(backends)
  /\ req' = filtered(req)
  /\ UNCHANGED <<health, failures_threshold, successes_threshold, hist, probing, extra>>

\* the sum of the weights of the backends H[1..n]
RECURSIVE weight_sum(_, _)
weight_sum(H, n) == IF n = 0 THEN 0 ELSE weight_sum(H, n - 1) + backends[H[n]].weight

\* the walk over the healthy backends: the position in H where random_weight
\* falls, 0 when the walk ends without a hit. First the walk, had it compared
\* the draw with <= instead of <
RECURSIVE walk_hits_at_weight(_, _, _)
walk_hits_at_weight(H, k, random_weight) ==
  IF k > Len(H) THEN 0
  ELSE IF random_weight <= backends[H[k]].weight THEN k
  ELSE walk_hits_at_weight(H, k + 1, random_weight - backends[H[k]].weight)

\* the walk over the healthy backends, as the code does it
RECURSIVE walk(_, _, _)
walk(H, k, random_weight) ==
  IF k > Len(H) THEN 0
  ELSE IF random_weight < backends[H[k]].weight THEN k
  ELSE walk(H, k + 1, random_weight - backends[H[k]].weight)

\* select_backend, the weighted choice for the draw random_weight
weighted(r, random_weight) ==
  LET H == r.healthy_backends
      k == walk(H, 1, random_weight)
      b == backends[H[IF k = 0 THEN 1 ELSE k]]
  IN [r EXCEPT !.pc = "selected", !.via = "weighted",
               !.random_weight = <<random_weight>>,
               !.selected = [label |-> b.label, url |-> b.url]]

\* select_backend, after the filter: None when no backend is healthy
SelectWeighted ==
  /\ req.pc = "filter"
  /\ req.i > Len(backends)
  /\ IF req.healthy_backends = <<>>
       THEN req' = [req EXCEPT !.pc = "selected", !.via = "none"]
       ELSE \E random_weight \in
                 0..(weight_sum(req.healthy_backends, Len(req.healthy_backends)) - 1) :
              req' = weighted(req, random_weight)
  /\ UNCHANGED <<health, failures_threshold, successes_threshold, hist, probing, extra>>

\* proxy, when select_backend returned None
ProxyNoBackend ==
  /\ req.pc = "selected"
  /\ req.selected = NoSelection
  /\ req' = [req EXCEPT !.pc = "done", !.i = 0, !.healthy_backends = <<>>,
               !.seen = [l \in Labels |-> {}], !.random_weight = <<>>,
               !.response = plain_response(503, <<"No healthy backends available">>)]
  /\ UNCHANGED <<health, failures_threshold, successes_threshold, hist, probing, extra>>

\* proxy, the request sent to the selected backend
outbound(r) ==
  LET uri == uri_string(r.selected.url, cleaned_request_path(r.path_and_query))
  IN [to |-> r.selected.label, uri |-> uri, host |-> uri_host(uri), body |-> r.body]

ProxyForward ==
  /\ req.pc = "selected"
  /\ req.selected # NoSelection
  /\ req' = [req EXCEPT !.pc = "in_flight", !.elapsed = 0,
               !.i = 0, !.healthy_backends = <<>>,
               !.seen = [l \in Labels |-> {}], !.random_weight = <<>>,
               !.sent = Append(@, outbound(req))]
  /\ UNCHANGED <<health, failures_threshold, successes_threshold, hist, probing, extra>>

\* a second passes while the upstream call is pending
Tick ==
  /\ req.pc = "in_flight"
  /\ req.elapsed < proxy_timeout_secs
  /\ req' = [req EXCEPT !.elapsed = @ + 1]
  /\ UNCHANGED <<health, failures_threshold, successes_threshold, hist, probing, extra>>

\* proxy, Ok(Ok(resp)): the upstream's response, tagged with the backend
upstream_response(r, resp) ==
  [status |-> resp.status, headers |-> resp.headers, body |-> resp.body,
   backend |-> r.selected.label]

UpstreamResponds ==
  /\ req.pc = "in_flight"
  /\ req.elapsed < proxy_timeout_secs
  /\ \E resp \in UpstreamResponses :
       req' = [req EXCEPT !.pc = "done", !.response = upstream_response(req, resp)]
  /\ UNCHANGED <<health, failures_threshold, successes_threshold, hist, probing, extra>>

\* proxy, Ok(Err(err))
bad_gateway(err) == plain_response(502, <<"Proxy error: ", err>>)

\* UpstreamFails, had a transport error sent the request back to select_backend
UpstreamFails_retries ==
  /\ req.pc = "in_flight"
  /\ req.elapsed < proxy_timeout_secs
  /\ \E err \in TransportErrors :
       req' = IF Len(req.sent) < 2
                THEN [req EXCEPT !.pc = "select", !.seen = FlagsNow(health),
                                 !.via = "-", !.selected = NoSelection]
                ELSE [req EXCEPT !.pc = "done", !.response = bad_gateway(err)]
  /\ UNCHANGED <<health, failures_threshold, successes_threshold, hist, probing, extra>>

UpstreamFails ==
  /\ req.pc = "in_flight"
  /\ req.elapsed < proxy_timeout_secs
  /\ \E err \in TransportErrors :
       req' = [req EXCEPT !.pc = "done", !.response = bad_gateway(err)]
  /\ UNCHANGED <<health, failures_threshold, successes_threshold, hist, probing, extra>>

\* proxy, Err(_): the timeout elapsed
gateway_timeout ==
  plain_response(504, <<"Upstream request timed out after ",
                        ToString(proxy_timeout_secs), "s">>)

\* ProxyTimeout, had the proxy counted the timeout as a failed probe of the
\* backend
ProxyTimeout_counts_failure ==
  /\ req.pc = "in_flight"
  /\ req.elapsed = proxy_timeout_secs
  /\ req' = [req EXCEPT !.pc = "done", !.response = gateway_timeout]
  /\ health' = [health EXCEPT ![req.selected.label] =
                  IF @.consecutive_failures < MaxCount
                    THEN apply_probe(@, "timeout", failures_threshold, successes_threshold)
                    ELSE @]
  /\ UNCHANGED <<failures_threshold, successes_threshold, hist, probing, extra>>

ProxyTimeout ==
  /\ req.pc = "in_flight"
  /\ req.elapsed = proxy_timeout_secs
  /\ req' = [req EXCEPT !.pc = "done", !.response = gateway_timeout]
  /\ UNCHANGED <<health, failures_threshold, successes_threshold, hist, probing, extra>>

(***************************************************************************)
(* GET /health (health_endpoint of src/handlers.rs).                       *)
(***************************************************************************)
\* HealthState::get_all_statuses: a copy of the whole map
get_all_statuses == health

\* the inbound URIs of GET /health, without an api-key and with a wrong one
HealthPath == <<"/", "h", "e", "a", "l", "t", "h">>
HealthPaths == {HealthPath, HealthPath \o ApiKeyPattern \o KeyBad}

\* BackendHealth of one backend, from its status in the snapshot
backend_health(label, status) ==
  [label |-> label,
   healthy |-> status.healthy,
   consecutive_failures |-> status.consecutive_failures,
   consecutive_successes |-> status.consecutive_successes,
   last_error |-> status.last_error]

\* health_response, had it reported "healthy" only when every backend is
health_response_all_healthy(all_statuses) ==
  LET entries == [k \in DOMAIN backends |->
                    backend_health(backends[k].label, all_statuses[backends[k].label])]
      any_healthy == \A k \in DOMAIN entries : entries[k].healthy
  IN [overall_status |-> IF any_healthy THEN "healthy" ELSE "unhealthy",
      backends |-> entries]

\* health_endpoint: the HealthResponse built from the snapshot
health_response(all_statuses) ==
  LET entries == [k \in DOMAIN backends |->
                    backend_health(backends[k].label, all_statuses[backends[k].label])]
      any_healthy == \E k \in DOMAIN entries : entries[k].healthy
  IN [overall_status |-> IF any_healthy THEN "healthy" ELSE "unhealthy",
      backends |-> entries]

\* a GET /health request is handled: the snapshot is taken and the response built
HealthEndpoint ==
  /\ health_view = NoHealthView
  /\ \E pq \in HealthPaths :
       LET response == health_response(get_all_statuses)
       IN health_view' = [uri |-> pq, status |-> 200,
                          overall_status |-> response.overall_status,
                          backends |-> response.backends]
  /\ UNCHANGED <<health, failures_threshold, successes_threshold, hist, probing, req,
                 store, cycle>>

\* the response of GET /health has been sent
HealthAnswered ==
  /\ health_view # NoHealthView
  /\ health_view' = NoHealthView
  /\ UNCHANGED <<health, failures_threshold, successes_threshold, hist, probing, req,
                 store, cycle>>

(***************************************************************************)
(* The binary of src/main.rs: its own AppState, select_backend and proxy.  *)
(* Its middleware, admission check and URI rewrite are the same code as    *)
(* in src/handlers.rs; its AppState holds no health state and no timeout.  *)
(***************************************************************************)
\* longest wait followed for an upstream call that is never answered
MaxWait == 3

\* total_weight, summed once at startup over all the backends
total_weight == weight_sum([i \in DOMAIN backends |-> i], Len(backends))

\* select_backend of src/main.rs for the draw random_weight
main_select_backend(r, random_weight) ==
  IF /\ r.rpc_method # NoMethod
     /\ r.rpc_method \in DOMAIN method_routes
     /\ method_routes[r.rpc_method] \in DOMAIN label_to_url
    THEN LET backend_label == method_routes[r.rpc_method]
         IN [r EXCEPT !.pc = "selected", !.via = "method",
               !.selected = [label |-> backend_label, url |-> label_to_url[backend_label]]]
    ELSE LET all == [i \in DOMAIN backends |-> i]
             k == walk(all, 1, random_weight)
             b == backends[IF k = 0 THEN 1 ELSE k]
         IN [r EXCEPT !.pc = "selected", !.via = "weighted",
               !.selected = [label |-> b.label, url |-> b.url]]

MainSelectBackend ==
  /\ req.pc = "select"
  /\ \E random_weight \in 0..(total_weight - 1) :
       req' = main_select_backend(req, random_weight)
  /\ UNCHANGED <<health, failures_threshold, successes_threshold, hist, probing, extra>>

\* a second passes while state.client.request(req) is awaited
MainTick ==
  /\ req.pc = "in_flight"
  /\ req.elapsed < MaxWait
  /\ req' = [req EXCEPT !.elapsed = @ + 1]
  /\ UNCHANGED <<health, failures_threshold, successes_threshold, hist, probing, extra>>

\* proxy of src/main.rs, Ok(resp)
MainUpstreamResponds ==
  /\ req.pc = "in_flight"
  /\ \E resp \in UpstreamResponses :
       req' = [req EXCEPT !.pc = "done", !.response = upstream_response(req, resp)]
  /\ UNCHANGED <<health, failures_threshold, successes_threshold, hist, probing, extra>>

\* proxy of src/main.rs, Err(err)
MainUpstreamFails ==
  /\ req.pc = "in_flight"
  /\ \E err \in TransportErrors :
       req' = [req EXCEPT !.pc = "done", !.response = bad_gateway(err)]
  /\ UNCHANGED <<health, failures_threshold, successes_threshold, hist, probing, extra>>

(***************************************************************************)
(* HealthMonitor.                                                          *)
(***************************************************************************)
\* a cycle starts: every backend is probed
MonitorTick ==
  /\ probing = {}
  /\ probing' = Labels
  /\ UNCHANGED <<health, failures_threshold, successes_threshold, hist, req, extra>>

\* the flags a selection in progress has seen, after the store changed
seen_after(r, h) ==
  IF r.pc \in {"select", "filter"}
    THEN [r EXCEPT !.seen = [l \in Labels |-> @[l] \cup {h[l].healthy}]]
    ELSE r

\* a probe of the cycle completes and its outcome is applied
ProbeComplete(b, outcome) ==
  /\ b \in probing
  /\ LET rec == apply_probe(health[b], outcome, failures_threshold, successes_threshold)
     IN /\ rec.consecutive_failures <= MaxCount
        /\ rec.consecutive_successes <= MaxCount
        /\ health' = [health EXCEPT ![b] = rec]
  /\ probing' = probing \ {b}
  /\ req' = seen_after(req, health')
  /\ UNCHANGED <<failures_threshold, successes_threshold, hist, extra>>

\* the record with its streaks of MaxCount probes and more counted as MaxCount
saturated(rec) ==
  [rec EXCEPT !.consecutive_failures = IF @ > MaxCount THEN MaxCount ELSE @,
              !.consecutive_successes = IF @ > MaxCount THEN MaxCount ELSE @]

\* a probe of the cycle completes and its outcome is applied, however long
\* the streak
ProbeCompleteSaturated(b, outcome) ==
  /\ b \in probing
  /\ health' = [health EXCEPT ![b] =
                  saturated(apply_probe(@, outcome, failures_threshold,
                                        successes_threshold))]
  /\ probing' = probing \ {b}
  /\ req' = seen_after(req, health')
  /\ UNCHANGED <<failures_threshold, successes_threshold, hist, extra>>

TotalHist == LET RECURSIVE Sum(_)
                 Sum(s) == IF s = {} THEN 0
                           ELSE LET b == CHOOSE x \in s : TRUE
                                IN Len(hist[b]) + Sum(s \ {b})
             IN Sum(Labels)

\* one apply_probe commit, recorded in the history
ProbeLogged(b, outcome) ==
  /\ TotalHist < MaxHist
  /\ health' = [health EXCEPT ![b] =
                  apply_probe(health[b], outcome, failures_threshold, successes_threshold)]
  /\ hist' = [hist EXCEPT ![b] = Append(@, IF outcome = "Success" THEN "S" ELSE "F")]
  /\ UNCHANGED <<failures_threshold, successes_threshold, probing, req, extra>>

(***************************************************************************)
(* HealthMonitor, with its cycles numbered and each applied outcome        *)
(* recorded under the number of the cycle that probed.                     *)
(***************************************************************************)
\* most cycles followed
MaxCycles == 3

\* CycleStart, had the monitor ticked at a fixed rate, whatever is in flight
CycleStart_fixed_rate ==
  /\ cycle.n < MaxCycles
  /\ probing' = Labels
  /\ cycle' = [cycle EXCEPT !.n = @ + 1]
  /\ UNCHANGED <<health, failures_threshold, successes_threshold, hist, req,
                 health_view, store>>

\* the tick: once every probe of the cycle before has completed and has been
\* applied, the next cycle starts and every backend is probed
CycleStart ==
  /\ cycle.n < MaxCycles
  /\ probing = {}
  /\ probing' = Labels
  /\ cycle' = [cycle EXCEPT !.n = @ + 1]
  /\ UNCHANGED <<health, failures_threshold, successes_threshold, hist, req,
                 health_view, store>>

\* a probe of the cycle completes or times out, and its outcome is applied
CycleProbeComplete(b, outcome) ==
  /\ b \in probing
  /\ health' = [health EXCEPT ![b] =
                  apply_probe(@, outcome, failures_threshold, successes_threshold)]
  /\ probing' = probing \ {b}
  /\ cycle' = [cycle EXCEPT !.applied[b] = Append(@, cycle.n)]
  /\ UNCHANGED <<failures_threshold, successes_threshold, hist, req,
                 health_view, store>>

(***************************************************************************)
(* HealthStore under a read-write lock over the whole map: apply_probe     *)
(* holds the write lock while it writes the fields of the record one by    *)
(* one, in the order of the hysteresis rule; get and get_all hold the read *)
(* lock while they copy.                                                   *)
(***************************************************************************)
\* most apply_probe calls followed on the locked store
MaxLog == 3

\* step k (1..4) of the hysteresis rule for the outcome, applied to record r
write_step(r, outcome, k, F, S) ==
  IF outcome = "Success"
    THEN CASE k = 1 -> [r EXCEPT !.consecutive_failures = 0]
           [] k = 2 -> [r EXCEPT !.consecutive_successes = @ + 1]
           [] k = 3 -> [r EXCEPT !.last_error = NoError]
           [] k = 4 -> [r EXCEPT !.healthy =
                           IF ~@ /\ r.consecutive_successes >= S THEN TRUE ELSE @]
    ELSE CASE k = 1 -> [r EXCEPT !.consecutive_successes = 0]
           [] k = 2 -> [r EXCEPT !.consecutive_failures = @ + 1]
           [] k = 3 -> [r EXCEPT !.last_error = outcome]
           [] k = 4 -> [r EXCEPT !.healthy =
                           IF @ /\ r.consecutive_failures >= F THEN FALSE ELSE @]

\* the number of apply_probe calls that took the write lock so far
RECURSIVE TotalLog(_)
TotalLog(labels) ==
  IF labels = {} THEN 0
  ELSE LET b == CHOOSE x \in labels : TRUE
       IN Len(store.log[b]) + TotalLog(labels \ {b})

\* apply_probe(b, outcome) takes the write lock
StoreApplyBegin(b, outcome) ==
  /\ store.writer = <<>>
  /\ TotalLog(Labels) < MaxLog
  /\ store' = [store EXCEPT
                 !.writer = <<[label |-> b, outcome |-> outcome, step |-> 1]>>,
                 !.log[b] = Append(@, outcome)]
  /\ UNCHANGED <<health, failures_threshold, successes_threshold, hist, probing, req,
                 health_view, cycle>>

\* the writer does its next step; after the last one it releases the lock
StoreApplyStep ==
  /\ store.writer # <<>>
  /\ LET w == store.writer[1]
     IN /\ health' = [health EXCEPT ![w.label] =
                        write_step(@, w.outcome, w.step,
                                   failures_threshold, successes_threshold)]
        /\ store' = [store EXCEPT !.writer =
                       IF w.step = 4 THEN <<>> ELSE <<[w EXCEPT !.step = @ + 1]>>]
  /\ UNCHANGED <<failures_threshold, successes_threshold, hist, probing, req,
                 health_view, cycle>>

\* can_read, had readers taken no lock
can_read_unlocked(s) == TRUE

\* the read lock can be taken: no writer holds the lock
can_read(s) == s.writer = <<>>

\* get(b): a copy of one record
StoreGet(b) ==
  /\ can_read(store)
  /\ store' = [store EXCEPT !.read = <<[l \in {b} |-> health[l]]>>]
  /\ UNCHANGED <<health, failures_threshold, successes_threshold, hist, probing, req,
                 health_view, cycle>>

\* get_all(): a copy of the map
StoreGetAll ==
  /\ can_read(store)
  /\ store' = [store EXCEPT !.read = <<health>>]
  /\ UNCHANGED <<health, failures_threshold, successes_threshold, hist, probing, req,
                 health_view, cycle>>

(***************************************************************************)
(* Specifications.                                                         *)
(***************************************************************************)
InitStore ==
  /\ health = [b \in Labels |-> InitialRecord]
  /\ hist = [b \in Labels |-> <<>>]
  /\ probing = {}
  /\ req = IdleRequest
  /\ InitExtra

\* the requests of the specification with the health monitor
MonitoredPaths == {Root \o ApiKeyPattern \o KeyGood, Root \o ApiKeyPattern \o KeyBad}
MonitoredBodies == {[bytes |-> GetBlockJson, size |-> 40], [bytes |-> GetSlotJson, size |-> 20]}

\* the steps of the handler after the middleware
Handle ==
  \/ ProxyAuth
  \/ SelectMethodRoute
  \/ FilterBackend
  \/ SelectWeighted
  \/ ProxyNoBackend
  \/ ProxyForward
  \/ Tick
  \/ UpstreamResponds
  \/ UpstreamFails
  \/ ProxyTimeout

\* the proxy of src/state.rs and src/handlers.rs with the health monitor
Init ==
  /\ InitStore
  /\ failures_threshold = DefaultFailuresThreshold
  /\ successes_threshold = DefaultSuccessesThreshold

Next ==
  \/ ExtractRpcMethod(MonitoredPaths, MonitoredBodies, {FALSE})
  \/ Handle
  \/ MonitorTick
  \/ \E b \in Labels, o \in Outcomes : ProbeComplete(b, o)

Spec == Init /\ [][Next]_vars

\* a record after n consecutive failed probes
RECURSIVE after_failures(_, _)
after_failures(n, F) ==
  IF n = 0 THEN InitialRecord
  ELSE apply_probe(after_failures(n - 1, F), "timeout", F, DefaultSuccessesThreshold)

\* the request path alone, on every request, with the store as the monitor
\* left it: each backend never probed, or unhealthy after F failures
InitRequests ==
  /\ failures_threshold = DefaultFailuresThreshold
  /\ successes_threshold = DefaultSuccessesThreshold
  /\ health \in [Labels -> {InitialRecord,
                            after_failures(DefaultFailuresThreshold, DefaultFailuresThreshold)}]
  /\ hist = [b \in Labels |-> <<>>]
  /\ probing = {}
  /\ req = IdleRequest
  /\ InitExtra

NextRequests ==
  \/ ExtractRpcMethod(PathQueries, Bodies, BOOLEAN)
  \/ Handle

SpecRequests == InitRequests /\ [][NextRequests]_vars

\* the binary of src/main.rs, beside the health monitor of the crate
NextMain ==
  \/ ExtractRpcMethod(MonitoredPaths, MonitoredBodies, {FALSE})
  \/ ProxyAuth
  \/ MainSelectBackend
  \/ ProxyForward
  \/ MainTick
  \/ MainUpstreamResponds
  \/ MainUpstreamFails
  \/ MonitorTick
  \/ \E b \in Labels, o \in Outcomes : ProbeComplete(b, o)

SpecMain == Init /\ [][NextMain]_vars

\* GET /health beside the health monitor
NextHealth ==
  \/ HealthEndpoint
  \/ HealthAnswered
  \/ MonitorTick
  \/ \E b \in Labels, o \in Outcomes : ProbeComplete(b, o)

SpecHealth == Init /\ [][NextHealth]_vars

\* the response of the proxied request has been sent
ResponseSent ==
  /\ req.pc = "done"
  /\ req' = IdleRequest
  /\ UNCHANGED <<health, failures_threshold, successes_threshold, hist, probing, extra>>

\* one client sending proxied requests and GET /health requests, one at a
\* time, beside the health monitor
NextFrame ==
  \/ health_view = NoHealthView /\ ExtractRpcMethod(MonitoredPaths, MonitoredBodies, {FALSE})
  \/ Handle
  \/ ResponseSent
  \/ req.pc = "idle" /\ HealthEndpoint
  \/ HealthAnswered
  \/ MonitorTick
  \/ \E b \in Labels, o \in Outcomes : ProbeComplete(b, o)

SpecFrame == Init /\ [][NextFrame]_vars

\* the proxy beside a monitor that runs forever: the monitor's task ticks on
\* its interval for as long as the process runs, and every probe completes
\* or times out
LivePaths == {Root \o ApiKeyPattern \o KeyGood}

NextLive ==
  \/ ExtractRpcMethod(LivePaths, MonitoredBodies, {FALSE})
  \/ Handle
  \/ MonitorTick
  \/ \E b \in Labels, o \in Outcomes : ProbeCompleteSaturated(b, o)

MonitorFairness ==
  /\ WF_vars(MonitorTick)
  /\ \A b \in Labels : WF_vars(\E o \in Outcomes : ProbeCompleteSaturated(b, o))

SpecLive == Init /\ [][NextLive]_vars /\ MonitorFairness

\* the monitor alone, cycle after cycle
NextCycles ==
  \/ CycleStart
  \/ \E b \in Labels, o \in Outcomes : CycleProbeComplete(b, o)

SpecCycles == Init /\ [][NextCycles]_vars

\* the locked store alone: writers and readers in every interleaving
NextStore ==
  \/ \E b \in Labels, o \in Outcomes : StoreApplyBegin(b, o)
  \/ StoreApplyStep
  \/ \E b \in Labels : StoreGet(b)
  \/ StoreGetAll

SpecStore == Init /\ [][NextStore]_vars

\* the hysteresis rule alone, on every sequence of probe outcomes
InitProbe ==
  /\ InitStore
  /\ failures_threshold \in 1..MaxThreshold
  /\ successes_threshold \in 1..MaxThreshold

NextProbe == \E b \in Labels, o \in Outcomes : ProbeLogged(b, o)

SpecProbe == InitProbe /\ [][NextProbe]_vars

(***************************************************************************)
(* Properties of the hysteresis rule (SpecProbe).                          *)
(***************************************************************************)
\* h[i-n+1..i] is a run of n outcomes of kind k ending at position i
RunEndingAt(h, i, n, k) == i - n + 1 >= 1 /\ \A j \in (i - n + 1)..i : h[j] = k

\* From the outcome history alone: the record is unhealthy iff some run of F
\* consecutive failures has completed and no run of S consecutive successes
\* has completed after it.
UnhealthyByHistory(h, F, S) ==
  \E i \in 1..Len(h) :
    /\ RunEndingAt(h, i, F, "F")
    /\ ~ \E k \in (i + 1)..Len(h) : k - S + 1 > i /\ RunEndingAt(h, k, S, "S")

\* C1: for every backend and every probe sequence applied with apply_probe
\* from the initial healthy record, the flag is false exactly from the probe
\* that completes F consecutive failures until the probe that completes S
\* consecutive successes, and true otherwise: no flip happens before a
\* threshold is completed, and an opposite outcome restarts the count.
C1_FlipsExactlyAtThreshold ==
  \A b \in Labels :
    health[b].healthy = ~UnhealthyByHistory(hist[b], failures_threshold, successes_threshold)

\* C1 witness: with F=3, S=2 the outcomes S,F,F,S,F,F,F,S,S have been applied
\* to a backend, which is healthy again
C1_Witness ==
  /\ failures_threshold = 3 /\ successes_threshold = 2
  /\ \E b \in Labels :
       /\ hist[b] = <<"S", "F", "F", "S", "F", "F", "F", "S", "S">>
       /\ health[b].healthy

\* C2: in every state of every record one of the two counters is zero, and
\* once a probe has been applied to the record exactly one of them is zero.
C2_OneCounterZero ==
  \A b \in Labels :
    LET r == health[b]
    IN /\ r.consecutive_failures = 0 \/ r.consecutive_successes = 0
       /\ hist[b] # <<>> =>
            (r.consecutive_failures = 0) # (r.consecutive_successes = 0)

\* C2 witness: a record that has seen a success after failures
C2_Witness ==
  \E b \in Labels :
    /\ Len(hist[b]) >= 3 /\ hist[b][1] = "F" /\ hist[b][Len(hist[b])] = "S"
    /\ health[b].consecutive_successes >= 1 /\ health[b].consecutive_failures = 0

\* C22: in every state of every record, for all thresholds F and S from 1
\* on, a healthy record has fewer than F consecutive failures and an
\* unhealthy record fewer than S consecutive successes: no record stays at
\* or past a threshold without having flipped.
C22_FlagMatchesStreak ==
  \A b \in Labels :
    /\ health[b].healthy => health[b].consecutive_failures < failures_threshold
    /\ ~health[b].healthy => health[b].consecutive_successes < successes_threshold

\* C22 witness: with F=3 and S=2, one record is healthy one failure short of
\* F and the other unhealthy one success short of S
C22_Witness ==
  /\ failures_threshold = 3 /\ successes_threshold = 2
  /\ health["A"].healthy /\ health["A"].consecutive_failures = 2
  /\ ~health["B"].healthy /\ health["B"].consecutive_successes = 1

\* the last outcome applied to the record, "-" before the first one
LastOutcome(h) == IF h = <<>> THEN "-" ELSE h[Len(h)]

\* C15: repeating the outcome that brought a record to its terminal state
\* changes the flag no more: a Failure applied to a record that is unhealthy
\* after a Failure leaves it unhealthy, and a Success applied to a record
\* that is healthy after a Success leaves it healthy, at every repetition.
C15_TerminalStable ==
  [][ \A b \in Labels :
        /\ ( /\ LastOutcome(hist[b]) = "F" /\ ~health[b].healthy
             /\ hist'[b] = Append(hist[b], "F") )
           => ~health'[b].healthy
        /\ ( /\ LastOutcome(hist[b]) = "S" /\ health[b].healthy
             /\ hist'[b] = Append(hist[b], "S") )
           => health'[b].healthy ]_vars

\* C15 witness: with F=2 and S=2 a backend went unhealthy and stayed so over
\* three more failures, then healthy and stayed so over two more successes
C15_Witness ==
  /\ failures_threshold = 2 /\ successes_threshold = 2
  /\ \E b \in Labels :
       /\ hist[b] = <<"F", "F", "F", "F", "F", "S", "S", "S", "S">>
       /\ health[b].healthy /\ health[b].consecutive_successes = 4

(***************************************************************************)
(* Properties of the dispatcher and of the forwarder.                      *)
(***************************************************************************)
\* the label the request's method tag is routed to, "-" when it has no override
OverrideLabel(r) ==
  IF r.rpc_method # NoMethod /\ r.rpc_method \in DOMAIN method_routes
    THEN method_routes[r.rpc_method] ELSE "-"

\* C3: when select_backend returns (L, U), the record of L was healthy at
\* some instant during the selection and U is label_to_url[L]; a backend
\* unhealthy throughout the selection is never returned.
C3_SelectedWasHealthy ==
  (req.pc = "selected" /\ req.selected # NoSelection) =>
    /\ req.selected.label \in Labels
    /\ TRUE \in req.seen[req.selected.label]
    /\ req.selected.url = label_to_url[req.selected.label]

\* C4: a request whose method tag is routed to L, with L healthy when its
\* status is read, gets exactly (L, label_to_url[L]) from the method route,
\* whatever the weights and the health of the other backends; no filter is
\* run and no weight is drawn.
C4_OverrideHonored ==
  [][ ( /\ req.pc = "select" /\ req'.pc # "select"
        /\ OverrideLabel(req) \in Labels
        /\ health[OverrideLabel(req)].healthy )
      => ( /\ req'.pc = "selected"
           /\ req'.via = "method"
           /\ req'.selected = [label |-> OverrideLabel(req),
                               url |-> label_to_url[OverrideLabel(req)]]
           /\ req'.healthy_backends = <<>> /\ req'.i = 0 ) ]_vars

\* C4 witness: the override was honored while the other backend is unhealthy
C4_Witness ==
  /\ req.pc = "selected" /\ req.via = "method"
  /\ req.rpc_method = "getBlock" /\ req.selected.label = "B"
  /\ ~health["A"].healthy

\* C5: a request whose method tag is routed to a backend L that is unhealthy
\* during the selection, while another backend is healthy, is not dropped:
\* select_backend returns, by the weighted path, a backend other than L that
\* was healthy.
C5_OverrideFallsBack ==
  ( /\ req.pc = "selected"
    /\ OverrideLabel(req) \in Labels
    /\ req.seen[OverrideLabel(req)] = {FALSE}
    /\ \E l \in Labels \ {OverrideLabel(req)} : req.seen[l] = {TRUE} )
  => ( /\ req.via = "weighted"
       /\ req.selected # NoSelection
       /\ req.selected.label \in Labels \ {OverrideLabel(req)}
       /\ TRUE \in req.seen[req.selected.label] )

\* C5 witness: getBlock is routed to B, B is unhealthy, A was returned
C5_Witness ==
  /\ req.pc = "selected" /\ req.rpc_method = "getBlock"
  /\ req.seen["B"] = {FALSE} /\ req.seen["A"] = {TRUE}
  /\ req.via = "weighted" /\ req.selected.label = "A"

\* C6: select_backend returns None exactly when the filter kept no backend:
\* then every backend was unhealthy when read, and when no backend was
\* healthy at any instant of the selection None is returned; the request is
\* answered 503 "No healthy backends available" and nothing is sent upstream.
C6_NoneIffNoHealthy ==
  /\ req.pc = "selected" =>
       /\ (req.via = "none") = (req.selected = NoSelection)
       /\ req.via = "none" =>
            /\ req.i > Len(backends) /\ req.healthy_backends = <<>>
            /\ \A l \in Labels : FALSE \in req.seen[l]
       /\ req.via = "weighted" => req.healthy_backends # <<>>
       /\ (\A l \in Labels : req.seen[l] = {FALSE}) => req.via = "none"
  /\ req.pc = "done" =>
       /\ (req.response.status = 503) = (req.via = "none")
       /\ req.via = "none" =>
            /\ req.response =
                 [status |-> 503, headers |-> "text/plain",
                  body |-> <<"No healthy backends available">>, backend |-> "-"]
            /\ req.sent = <<>>

\* C6 witness: a request with a method override was answered 503
C6_Witness ==
  /\ req.pc = "done" /\ req.response.status = 503
  /\ req.rpc_method = "getBlock"
  /\ \A l \in Labels : ~health[l].healthy

\* the inbound URIs whose api-key is absent or not a configured key
Unadmitted == {Root \o ApiKeyPattern \o KeyBad, PathX}

\* C7: a request whose api-key is absent or not configured is answered 401
\* "Unauthorized"; no backend is selected, no health record is read and
\* nothing is sent upstream, whatever the health state.
C7_Unauthorized ==
  (req.pc \notin {"idle", "extracted"} /\ req.path_and_query \in Unadmitted) =>
    /\ req.pc = "done"
    /\ req.response = [status |-> 401, headers |-> "text/plain",
                       body |-> <<"Unauthorized">>, backend |-> "-"]
    /\ req.selected = NoSelection /\ req.via = "-"
    /\ req.healthy_backends = <<>> /\ \A l \in Labels : req.seen[l] = {}
    /\ req.sent = <<>>

\* C7 witness: 401 was answered while no backend is healthy
C7_Witness ==
  /\ req.pc = "done" /\ req.response.status = 401
  /\ req.path_and_query = Root \o ApiKeyPattern \o KeyBad
  /\ \A l \in Labels : ~health[l].healthy

\* the URI carries the api-key parameter with the client's key
CarriesApiKey(uri, path_and_query) ==
  find(uri, ApiKeyName \o <<"=">> \o query_api_key(path_and_query)) # 0

\* C8: the outbound URI of an admitted request never carries the client's
\* api-key.
C8_ApiKeyStripped ==
  \A k \in DOMAIN req.sent : ~CarriesApiKey(req.sent[k].uri, req.path_and_query)

\* C9: when the body was read within the cap, the body passed downstream by
\* extract_rpc_method, and the body sent to the upstream, are the client's
\* bytes, with or without a method tag.
C9_BodyTransparent ==
  (req.pc # "idle" /\ req.read_ok) =>
    /\ req.body = req.body_in
    /\ \A k \in DOMAIN req.sent : req.sent[k].body = req.body_in

\* C9 witness: a tagged body of exactly the cap was forwarded unchanged
C9_Witness ==
  /\ req.pc = "in_flight" /\ req.rpc_method = "getBlock"
  /\ req.body_in = [bytes |-> GetBlockJson, size |-> MAX_BODY_SIZE]
  /\ req.sent # <<>> /\ req.sent[1].body = req.body_in

\* C10: the response of a forwarded request is decided by the upstream call:
\* the call never outlives proxy.timeout_secs; a response within the timeout
\* is returned unchanged and tagged with the selected backend, a transport
\* error gives an untagged 502 "Proxy error: <err>", and no response within
\* the timeout gives an untagged 504 "Upstream request timed out after Ns".
C10_ResponseByOutcome ==
  /\ req.pc = "in_flight" => req.elapsed <= proxy_timeout_secs
  /\ (req.pc = "done" /\ req.sent # <<>>) =>
       \/ /\ req.elapsed < proxy_timeout_secs
          /\ \E resp \in UpstreamResponses :
               req.response = [status |-> resp.status, headers |-> resp.headers,
                               body |-> resp.body, backend |-> req.selected.label]
       \/ /\ req.elapsed < proxy_timeout_secs
          /\ \E err \in TransportErrors :
               req.response = [status |-> 502, headers |-> "text/plain",
                               body |-> <<"Proxy error: ", err>>, backend |-> "-"]
       \/ /\ req.elapsed = proxy_timeout_secs
          /\ req.response =
               [status |-> 504, headers |-> "text/plain",
                body |-> <<"Upstream request timed out after ",
                           ToString(proxy_timeout_secs), "s">>,
                backend |-> "-"]

\* C11: an inbound request causes at most one outbound request, to the one
\* backend select_backend returned: once the outbound request is issued the
\* selection is never redone and nothing more is sent, whether the upstream
\* answers, fails or times out; the handler ends with a response and the next
\* step of the request is the next inbound request.
C11_SingleAttempt ==
  [][ /\ Len(req'.sent) <= 1
      /\ req'.sent # <<>> => req'.sent[1].to = req'.selected.label
      /\ req.sent # <<>> =>
           \/ req'.pc = "extracted" /\ req'.sent = <<>>
           \/ /\ req'.sent = req.sent
              /\ req'.selected = req.selected /\ req'.via = req.via
              /\ req'.pc \in {"in_flight", "done"}
              /\ req.pc = "done" => req' = req
      /\ (req.pc = "in_flight" /\ req'.pc = "done") =>
           req'.response # NoResponse ]_vars

\* C11 witness: a transport error was answered 502 after one outbound request,
\* while another backend was healthy
C11_Witness ==
  /\ req.pc = "done" /\ req.response.status = 502
  /\ Len(req.sent) = 1 /\ req.sent[1].to = "A"
  /\ health["B"].healthy

\* C12: on the weighted path, with H the non-empty healthy subset in
\* configuration order, W its total weight and r the draw in [0, W),
\* select_backend returns the one backend h_k of H with
\* weight(h_1..h_(k-1)) <= r < weight(h_1..h_k); exactly weight(h_k) of the W
\* draws select h_k, so every healthy backend can be selected, and no draw
\* ends the walk without a hit (the first-healthy fallback is never used).
C12_WeightedByInterval ==
  (req.pc = "selected" /\ req.via = "weighted") =>
    LET H == req.healthy_backends
        W == weight_sum(H, Len(H))
        r == req.random_weight[1]
        hit == {k \in DOMAIN H : weight_sum(H, k - 1) <= r /\ r < weight_sum(H, k)}
    IN /\ H # <<>> /\ req.random_weight # <<>> /\ r \in 0..(W - 1)
       /\ \E k \in hit :
            /\ hit = {k}
            /\ req.selected = [label |-> backends[H[k]].label, url |-> backends[H[k]].url]
       /\ \A k \in DOMAIN H :
            Cardinality({d \in 0..(W - 1) : walk(H, 1, d) = k}) = backends[H[k]].weight
       /\ \A d \in 0..(W - 1) : walk(H, 1, d) # 0

\* C12 witness: both backends healthy, the draw equals the weight of the
\* first one, and the second one is returned
C12_Witness ==
  /\ req.pc = "selected" /\ req.via = "weighted"
  /\ req.healthy_backends = <<1, 2>>
  /\ req.random_weight = <<backends[1].weight>>
  /\ req.selected.label = backends[2].label

\* C13: every health flag a selection has read is a flag the record held
\* between the start of the selection and the read, never anything else: a
\* record that did not change since the selection began is read with its
\* current flag, so a backend unhealthy since before the selection began is
\* neither kept by the filter nor returned, and a record that changed during
\* the selection is read with its old or its new flag.
C13_ReadsAreHeldValues ==
  req.pc \in {"filter", "selected"} =>
    /\ \A k \in DOMAIN backends :
         k < req.i =>
           /\ (\E j \in DOMAIN req.healthy_backends : req.healthy_backends[j] = k)
                 \in req.seen[backends[k].label]
           /\ req.seen[backends[k].label] = {health[backends[k].label].healthy} =>
                (\E j \in DOMAIN req.healthy_backends : req.healthy_backends[j] = k)
                   = health[backends[k].label].healthy
    /\ OverrideLabel(req) \in Labels =>
         (req.via = "method") \in req.seen[OverrideLabel(req)]
    /\ \A b \in Labels : req.seen[b] = {FALSE} => req.selected.label # b

\* C13 witness: B went unhealthy before the selection began and A while it
\* ran, after the filter had read A; A was returned
C13_Witness ==
  /\ req.pc = "selected" /\ req.via = "weighted"
  /\ req.seen["B"] = {FALSE} /\ req.seen["A"] = {TRUE, FALSE}
  /\ ~health["A"].healthy
  /\ req.selected.label = "A"

(***************************************************************************)
(* Properties of GET /health (SpecHealth).                                 *)
(***************************************************************************)
\* C14: the response of GET /health is 200 with overall_status "healthy"
\* exactly when some configured backend is healthy in the store at the
\* instant of the snapshot, "unhealthy" otherwise, and with one entry per
\* configured backend, in configuration order, carrying that backend's
\* label, flag, counters and last error of the same instant; the request
\* needs no api-key.
C14_HealthReport ==
  [][ (health_view = NoHealthView /\ health_view' # NoHealthView) =>
        /\ health_view'.status = 200
        /\ health_view'.overall_status =
             IF \E b \in Labels : health[b].healthy THEN "healthy" ELSE "unhealthy"
        /\ Len(health_view'.backends) = Len(backends)
        /\ \A k \in DOMAIN backends :
             LET e == health_view'.backends[k]
                 rec == health[backends[k].label]
             IN /\ e.label = backends[k].label
                /\ e.healthy = rec.healthy
                /\ e.consecutive_failures = rec.consecutive_failures
                /\ e.consecutive_successes = rec.consecutive_successes
                /\ e.last_error = rec.last_error ]_vars

\* C14 witness: a request without api-key is answered "healthy" while the
\* first backend is reported unhealthy after three failures
C14_Witness ==
  /\ health_view.uri = HealthPath /\ health_view.status = 200
  /\ health_view.overall_status = "healthy"
  /\ ~health_view.backends[1].healthy
  /\ health_view.backends[1].consecutive_failures = 3
  /\ health_view.backends[2].healthy

(***************************************************************************)
(* Properties of the URI rewrite and of the method extractor               *)
(* (SpecRequests).                                                         *)
(***************************************************************************)
\* the inbound path-and-query up to the first occurrence of "?api-key="
TruncatedAtApiKey(pq) ==
  LET n == Len(ApiKeyPattern)
      cuts == {c \in 0..(Len(pq) - n) : SubSeq(pq, c + 1, c + n) = ApiKeyPattern}
  IN IF cuts = {} THEN pq
     ELSE SubSeq(pq, 1, CHOOSE c \in cuts : \A d \in cuts : c <= d)

\* C16: with p the inbound path-and-query cut at the first "?api-key=" and
\* U the url of the selected backend, the outbound URI is U without its
\* trailing slash when p is "/", U followed by p without its first character
\* when U ends with "/" and p begins with "/", and U followed by p otherwise;
\* no slash is doubled where U and p are joined, and POST /?api-key=k with
\* the backend url h://a/ goes to h://a.
C16_OutboundUri ==
  \A k \in DOMAIN req.sent :
    LET U == label_to_url[req.sent[k].to]
        u == Len(U)
        p == TruncatedAtApiKey(req.path_and_query)
        uri == req.sent[k].uri
    IN /\ p = <<"/">> =>
            uri = IF U[u] = "/" THEN SubSeq(U, 1, u - 1) ELSE U
       /\ (p # <<"/">> /\ U[u] = "/" /\ p[1] = "/") =>
            uri = U \o SubSeq(p, 2, Len(p))
       /\ (p # <<"/">> /\ ~(U[u] = "/" /\ p[1] = "/")) => uri = U \o p
       /\ Len(uri) > u => ~(uri[u] = "/" /\ uri[u + 1] = "/")
       /\ (req.path_and_query = <<"/", "?", "a", "p", "i", "-", "k", "e", "y", "=", "k">>
             /\ U = <<"h", ":", "/", "/", "a", "/">>)
            => uri = <<"h", ":", "/", "/", "a">>

\* C16 witness: /x?api-key=k&a=1 was sent to the backend whose url ends with
\* a slash, as h://a/x
C16_Witness ==
  /\ req.sent # <<>> /\ req.sent[1].to = "A"
  /\ req.path_and_query = PathX \o ApiKeyPattern \o KeyGood \o <<"&">> \o OtherParam
  /\ req.sent[1].uri = <<"h", ":", "/", "/", "a", "/", "x">>

\* the bodies that are a JSON object with a string member "method", with
\* that string; every other body clients send is not JSON (NotJson), an
\* array (BatchJson), an object without "method" at the top (NoMethodJson,
\* NestedMethodJson) or with a "method" that is no string (NumericMethodJson)
StringMethodOf(bytes) ==
  IF bytes = GetBlockJson THEN "getBlock"
  ELSE IF bytes = GetSlotJson THEN "getSlot"
  ELSE NoMethod

\* C17: the request passed downstream carries a method tag exactly when its
\* body was read within the cap and is a JSON object whose member "method"
\* is a string, and the tag is that string; a body that is not JSON, is an
\* array, has no "method" or a non-string "method" gets no tag, and a request
\* without tag is never routed by a method override.
C17_TagIffStringMethod ==
  req.pc # "idle" =>
    /\ req.rpc_method =
         IF req.read_ok /\ req.body_in.size <= MAX_BODY_SIZE
           THEN StringMethodOf(req.body_in.bytes) ELSE NoMethod
    /\ req.rpc_method = NoMethod => req.via # "method"

\* C17 witness: a batch holding a getBlock call got no tag and was dispatched
\* by weight to A, while the backend getBlock is routed to was healthy
C17_Witness ==
  /\ req.pc = "selected" /\ req.body_in.bytes = BatchJson
  /\ req.rpc_method = NoMethod
  /\ req.via = "weighted" /\ req.selected.label = "A"
  /\ health[method_routes["getBlock"]].healthy

\* C18: a request whose body is longer than MAX_BODY_SIZE, or could not be
\* read, is not rejected by the middleware: it goes on with an empty body and
\* without method tag, is admitted or answered 401 by its api-key as any
\* request, and an admitted one is dispatched by the weighted path, never by
\* a method override; what is sent upstream has the empty body.
C18_UnreadBodyGoesOnEmpty ==
  (req.pc # "idle" /\ (req.body_in.size > MAX_BODY_SIZE \/ ~req.read_ok)) =>
    /\ ~req.read_ok
    /\ req.body = EmptyBody
    /\ req.rpc_method = NoMethod
    /\ req.via \in {"-", "weighted", "none"}
    /\ \A k \in DOMAIN req.sent : req.sent[k].body = EmptyBody
    /\ req.pc = "done" =>
         /\ req.response.status \in {401, 503, 502, 504}
                                      \cup {resp.status : resp \in UpstreamResponses}
         /\ (req.response.status = 401) = (req.path_and_query \in Unadmitted)

\* C18 witness: a getBlock call one byte over the cap was sent with an empty
\* body to A, by weight, while the backend getBlock is routed to was healthy
C18_Witness ==
  /\ req.pc = "in_flight"
  /\ req.body_in = [bytes |-> GetBlockJson, size |-> MAX_BODY_SIZE + 1]
  /\ req.via = "weighted" /\ req.selected.label = "A"
  /\ req.sent # <<>> /\ req.sent[1].body = EmptyBody
  /\ health[method_routes["getBlock"]].healthy

(***************************************************************************)
(* Properties of the locked store (SpecStore) and of the monitor's cycles  *)
(* (SpecCycles).                                                           *)
(***************************************************************************)
\* the record after the outcomes of log were applied, one whole apply_probe
\* after the other, to the initial record
RECURSIVE Applied(_)
Applied(log) ==
  IF log = <<>> THEN InitialRecord
  ELSE apply_probe(Applied(SubSeq(log, 1, Len(log) - 1)), log[Len(log)],
                   failures_threshold, successes_threshold)

\* the apply_probe calls on b that have released the lock
CommittedLog(b) ==
  IF store.writer # <<>> /\ store.writer[1].label = b
    THEN SubSeq(store.log[b], 1, Len(store.log[b]) - 1)
    ELSE store.log[b]

\* C19: every record a get or get_all returned is the record as some whole
\* number of apply_probe calls left it, never a mix of fields from before and
\* after a call; at most one apply_probe writes at a time, and whenever no
\* call is writing a record, the record is what the calls made on it so far
\* give when applied whole, one after the other, in the order they took the
\* lock: no outcome is lost.
C19_CoherentReadsSerialWrites ==
  /\ \A i \in DOMAIN store.read :
       \A l \in DOMAIN store.read[i] :
         \E n \in 0..Len(CommittedLog(l)) :
           store.read[i][l] = Applied(SubSeq(CommittedLog(l), 1, n))
  /\ Len(store.writer) <= 1
  /\ \A b \in Labels : health[b] = Applied(CommittedLog(b))
                          \/ (store.writer # <<>> /\ store.writer[1].label = b)

\* C19 witness: a get returned A as two calls left it, while a third call has
\* written two of its fields and the record in the store is no committed one
C19_Witness ==
  /\ store.writer # <<>> /\ store.writer[1].label = "A" /\ store.writer[1].step = 3
  /\ Len(store.log["A"]) = 3
  /\ store.read = <<[l \in {"A"} |-> Applied(SubSeq(store.log["A"], 1, 2))]>>
  /\ \A n \in 0..3 : health["A"] # Applied(SubSeq(store.log["A"], 1, n))

\* C20: the monitor's cycles do not overlap: whenever cycle n is the last one
\* started, each backend has had exactly one outcome applied for each of the
\* cycles 1..n-1, in that order, and for cycle n one outcome if its probe has
\* completed and none if it is in flight, whatever the order in which the
\* probes of a cycle complete; a cycle starts only when no probe is in
\* flight, and it probes every backend.
C20_CyclesDoNotOverlap ==
  /\ \A b \in Labels :
       cycle.applied[b] =
         [c \in 1..(IF b \in probing THEN cycle.n - 1 ELSE cycle.n) |-> c]
  /\ probing # {} => cycle.n >= 1
  /\ cycle.n = 0 => \A b \in Labels : health[b] = InitialRecord

\* C20 witness: in cycle 2 the probe of B, the second backend, has completed
\* and been applied while the probe of A is still in flight
C20_Witness ==
  /\ cycle.n = 2 /\ probing = {"A"}
  /\ cycle.applied["A"] = <<1>> /\ cycle.applied["B"] = <<1, 2>>
  /\ health["A"].consecutive_failures = 1

(***************************************************************************)
(* Frame of the HealthStore (SpecFrame).                                   *)
(***************************************************************************)
\* the request without the flags recorded for its selection
HandlerState(r) == [r EXCEPT !.seen = [l \in Labels |-> {}]]

\* C21: the keys of the HealthStore are the configured labels in every
\* state; a step that changes a record is the apply_probe of one probe in
\* flight, changes the record of that backend as the hysteresis rule says
\* and no other record; and no step of extract_rpc_method, select_backend,
\* proxy or health_endpoint changes a record or a threshold.
C21_StoreFrame ==
  [][ /\ DOMAIN health = Labels /\ DOMAIN health' = Labels
      /\ \A b \in Labels :
           health'[b] # health[b] =>
             /\ b \in probing /\ probing' = probing \ {b}
             /\ \A c \in Labels \ {b} : health'[c] = health[c]
             /\ \E o \in Outcomes :
                  health'[b] = apply_probe(health[b], o, failures_threshold,
                                           successes_threshold)
             /\ HandlerState(req') = HandlerState(req)
             /\ health_view' = health_view
      /\ (HandlerState(req') # HandlerState(req) \/ health_view' # health_view) =>
           /\ health' = health
           /\ failures_threshold' = failures_threshold
           /\ successes_threshold' = successes_threshold ]_vars

\* C21 witness: a request sent to A timed out and A's record is still the
\* initial one, while a probe has changed the record of B
C21_Witness ==
  /\ req.pc = "done" /\ req.response.status = 504
  /\ req.sent # <<>> /\ req.sent[1].to = "A"
  /\ health["A"] = InitialRecord
  /\ health["B"].consecutive_failures = 1

(***************************************************************************)
(* Liveness under a fair monitor (SpecLive).                               *)
(***************************************************************************)
\* this step applies the outcome of a probe of b
ProbeApplied(b) == b \in probing /\ b \notin probing'

\* this step makes b the backend select_backend returns
Dispatched(b) == req'.selected.label = b /\ req.selected.label # b

\* in this step select_backend treats b as a healthy backend: the filter, when
\* it reads b, keeps it, and the method route, when the tag is routed to b,
\* returns it
Eligible(b) ==
  /\ ( /\ req.pc = "filter" /\ req.i \in DOMAIN backends
       /\ backends[req.i].label = b /\ req'.i = req.i + 1 )
     => req'.healthy_backends = Append(req.healthy_backends, req.i)
  /\ (req.pc = "select" /\ OverrideLabel(req) = b /\ req'.pc # "select")
     => (req'.via = "method" /\ req'.selected.label = b)

\* C23: with a monitor that keeps ticking and whose probes all complete, if
\* from some point on every probe of b fails, then from some point on b is
\* unhealthy for good and select_backend never returns b again; and if from
\* some point on every probe of b succeeds, then from some point on b is
\* healthy for good and select_backend keeps it in the filter and honours
\* the method overrides routed to it.
C23_HealthFollowsProbes ==
  \A b \in Labels :
    /\ (<>[][ProbeApplied(b) => health'[b].last_error # NoError]_vars)
         => /\ <>[](~health[b].healthy)
            /\ <>[][~Dispatched(b)]_vars
    /\ (<>[][ProbeApplied(b) => health'[b].last_error = NoError]_vars)
         => /\ <>[](health[b].healthy)
            /\ <>[][Eligible(b)]_vars

\* C23 witness: B has failed MaxCount probes in a row and more, and a getBlock
\* request, routed to B by its method, was given A
C23_Witness ==
  /\ ~health["B"].healthy /\ health["B"].consecutive_failures = MaxCount
  /\ req.pc = "selected" /\ req.rpc_method = "getBlock"
  /\ req.selected.label = "A"

(***************************************************************************)
(* Termination of the proxied request.                                     *)
(***************************************************************************)
\* C24: a proxied request ends with exactly one response, and has none
\* before: 401 with nothing selected or sent, 503 with nothing sent, or,
\* after its one outbound request, the upstream's response, 502 or 504; the
\* upstream call is never pending for longer than proxy.timeout_secs, and a
\* call still unanswered at that time ends with 504.
C24_AnsweredOnceInTime ==
  /\ (req.pc = "done") = (req.response # NoResponse)
  /\ req.pc = "done" =>
       /\ req.response.status \in {401, 503, 502, 504}
                                    \cup {resp.status : resp \in UpstreamResponses}
       /\ req.response.status = 401 => (req.sent = <<>> /\ req.selected = NoSelection)
       /\ req.response.status = 503 => req.sent = <<>>
       /\ req.response.status \notin {401, 503} => Len(req.sent) = 1
       /\ (req.sent # <<>> /\ req.elapsed = proxy_timeout_secs) =>
            req.response.status = 504
  /\ req.pc = "in_flight" => req.elapsed <= proxy_timeout_secs

====
